---- MODULE Spec2Model ----
(***************************************************************************)
(* JobQueueCluster (dask_jobqueue/core.py): the worker registry `jobs`     *)
(* (slot -> scheduler job id), the slot counter `n`, and the operations    *)
(* start_workers, stop_workers, scale_up and scale_down that change them.  *)
(*                                                                         *)
(* Text is a sequence of one-character strings and the output of a command *)
(* a sequence of bytes, so that bytes.decode, str.split and int() are      *)
(* computed as Python computes them.                                       *)
(***************************************************************************)
EXTENDS Integers, Sequences, FiniteSets, Bags, TLC

VARIABLES
  jobs,      \* self.jobs: slot -> job id
  n,         \* self.n: the slot counter
  last,      \* the call the caller has just made, with its outcome; Idle between calls
  held,      \* what the caller keeps of its previous call when it makes the next
  returned,  \* every slot id a start_workers call has returned
  stopped,   \* every slot whose job has been cancelled
  cluster,   \* self.cluster: "none" before it is created, "open", "closing" once
             \* __exit__ has stopped the workers, "released" after cluster.__exit__
  accepted,  \* the job ids the scheduler has printed for the submissions it accepted
  th,        \* per calling thread: where it stands in its call, and its locals
  log,       \* the commands the calling threads have spawned: a bag
  adaptive,  \* self._adaptive: ref is 0 for None and k for the k-th Adaptive built,
             \* built counts the Adaptive objects constructed, was is the value
             \* adapt() found in the field when it was last called
  ctor,      \* __init__: the class attributes and arguments it is given, how far
             \* it got ("new" before it runs), its error, the attributes it set
  job_header,  \* self.job_header
  run        \* a _calls batch under way: its commands, the processes launched,
             \* the order they finished in, the outputs collected, the stderr logged

vars ==
  <<jobs, n, last, held, returned, stopped, cluster, accepted, th, log, adaptive,
    ctor, job_header, run>>

\* the state the worker operations leave alone
more == <<cluster, accepted, th, log, adaptive, ctor, job_header, run>>

----------------------------------------------------------------------------
(* Bounds of the model *)

\* the slot counter is capped: no call is started that could push it further
MaxN == 3
\* largest count / target a caller passes
MaxCount == 2
\* longest list of slots a caller hands to stop_workers
MaxStop == 2
\* largest batch of commands handed to _calls
MaxBatch == 2

----------------------------------------------------------------------------
(* Text helpers *)

Digits == {"0", "1", "2", "3", "4", "5", "6", "7", "8", "9"}

DigitVal(c) ==
  CASE c = "0" -> 0 [] c = "1" -> 1 [] c = "2" -> 2 [] c = "3" -> 3
    [] c = "4" -> 4 [] c = "5" -> 5 [] c = "6" -> 6 [] c = "7" -> 7
    [] c = "8" -> 8 [] c = "9" -> 9

\* str.split(sep): the segments between the separators; "" gives <<"">>
RECURSIVE SplitFrom(_, _, _, _)
SplitFrom(s, sep, i, cur) ==
  IF i > Len(s) THEN <<cur>>
  ELSE IF s[i] = sep THEN <<cur>> \o SplitFrom(s, sep, i + 1, <<>>)
  ELSE SplitFrom(s, sep, i + 1, Append(cur, s[i]))

split(s, sep) == SplitFrom(s, sep, 1, <<>>)

\* the character of an ASCII byte (those the submit command prints here)
Chr(b) ==
  CASE b = 46 -> "." [] b = 100 -> "d" [] b = 104 -> "h"
    [] b = 48 -> "0" [] b = 49 -> "1" [] b = 50 -> "2" [] b = 51 -> "3"
    [] b = 52 -> "4" [] b = 53 -> "5" [] b = 54 -> "6" [] b = 55 -> "7"
    [] b = 56 -> "8" [] b = 57 -> "9"

\* bytes.decode(): a byte of 0x80 or more that starts no valid UTF-8 sequence
\* raises UnicodeDecodeError
Decodable(out) == \A i \in 1..Len(out) : out[i] < 128

decode(out) == [i \in 1..Len(out) |-> Chr(out[i])]

\* int(text): decimal digits only, at least one
IsIntText(s) == Len(s) > 0 /\ \A i \in 1..Len(s) : s[i] \in Digits

RECURSIVE IntOfText(_)
IntOfText(s) ==
  IF Len(s) = 0 THEN 0
  ELSE 10 * IntOfText(SubSeq(s, 1, Len(s) - 1)) + DigitVal(s[Len(s)])

\* a Python value handed to stop_workers: an int or a str
PyInt(v) == [t |-> "int", i |-> v, s |-> <<>>]
PyStr(x) == [t |-> "str", i |-> 0, s |-> x]

PyNone == [t |-> "none", i |-> 0, s |-> <<>>]

\* the truth value Python gives v: None, 0 and "" are false
Truthy(v) ==
  CASE v.t = "none" -> FALSE
    [] v.t = "int" -> v.i # 0
    [] v.t = "str" -> Len(v.s) > 0

\* str(k) for k >= 0
RECURSIVE StrOfInt(_)
StrOfInt(k) ==
  LET d == CHOOSE c \in Digits : DigitVal(c) = k % 10
  IN IF k < 10 THEN <<d>> ELSE Append(StrOfInt(k \div 10), d)

\* str(v), as %s formats it
str(v) ==
  CASE v.t = "none" -> <<"N", "o", "n", "e">>
    [] v.t = "int" -> StrOfInt(v.i)
    [] v.t = "str" -> v.s

\* template % env: a template is a sequence of characters and %(key) fields
RECURSIVE Format(_, _)
Format(tpl, env) ==
  IF Len(tpl) = 0 THEN <<>>
  ELSE (IF Head(tpl) \in DOMAIN env THEN str(env[Head(tpl)]) ELSE <<Head(tpl)>>)
       \o Format(Tail(tpl), env)

\* int(w) of line 196
CanInt(w) == w.t = "int" \/ IsIntText(w.s)
int(w) == IF w.t = "int" THEN w.i ELSE IntOfText(w.s)

\* the orders in which a set can be iterated
Orderings(S) ==
  {f \in [1..Cardinality(S) -> S] : \A i, j \in 1..Cardinality(S) : f[i] = f[j] => i = j}

Range(f) == {f[i] : i \in DOMAIN f}

----------------------------------------------------------------------------
(* Configuration supplied by the scheduler-specific subclass *)

submit_command == "qsub"
cancel_command == "qdel"

\* what a class can have for submit_command and cancel_command: None (the
\* base class), an empty string, a command
SubmitCommands == {PyNone, PyStr(<<>>), PyStr(<<"q", "s", "u", "b">>)}
CancelCommands == {PyNone, PyStr(<<>>), PyStr(<<"q", "d", "e", "l">>)}

\* the name argument of __init__
Names == {PyNone, PyStr(<<"w">>)}

\* the job header a subclass installs: "#PBS"
Header == PyStr(<<"#", "P", "B", "S">>)

\* lines 57-63: "#!/bin/bash\n\n%(job_header)s\n\n%(worker_command)s\n"
script_template ==
  <<"#", "!", "/", "b", "i", "n", "/", "b", "a", "s", "h", "\n", "\n",
    "%(job_header)s", "\n", "\n", "%(worker_command)s", "\n">>

\* lines 101-117, every optional argument but name being None:
\* "<dirname>/dask-worker <address>" and " --name <name>-%(n)d"
command_template(name) ==
  <<"/", "d", "a", "s", "k", "-", "w", "o", "r", "k", "e", "r", " ", "s">>
  \o (IF name.t = "none" THEN <<>>
      ELSE <<" ", "-", "-", "n", "a", "m", "e", " ">> \o str(name) \o <<"-", "%(n)d">>)

\* outputs (bytes) the submit command can print
Outputs ==
  { <<49, 48, 49, 46, 104>>,            \* b"101.h"
    <<49, 48, 50, 46, 104, 46, 100>>,   \* b"102.h.d"
    <<>>,                               \* b""
    <<255>> }                           \* b"\xff", not UTF-8

\* names workers report: <prefix>-<slot>-<process>, and malformed ones
WorkerNames ==
  { <<"w", "-", "1", "-", "0">>,
    <<"w", "-", "1", "-", "1">>,
    <<"w", "-", "2", "-", "a">>,
    <<"w", "-", "3", "-", "0">>,
    <<"w", "-", "2">>,
    <<"w">> }

Handles == {"w1", "w2"}

----------------------------------------------------------------------------
(* The commands handed to _call *)

SubmitCmd(slot) == [prog |-> submit_command, script |-> slot, args |-> <<>>]
CancelCmd(js)   == [prog |-> cancel_command, script |-> 0, args |-> js]

----------------------------------------------------------------------------
(* job_script: mints the next slot *)

\* a job_script that forgets to advance the counter
job_script_stale(k) == k

job_script(k) == k + 1

\* a parse that keeps the last '.'-segment instead of the first
JobOfLastSegment(out) == split(decode(out), ".")[Len(split(decode(out), "."))]

\* the job id parsed from a submission output (line 139)
JobOf(out) == split(decode(out), ".")[1]

\* jobs[slot] = job
Put(reg, slot, job) ==
  [s \in DOMAIN reg \cup {slot} |-> IF s = slot THEN job ELSE reg[s]]

\* a loop that takes a negative count for its size
RangeLenAbs(count) == IF count < 0 THEN 0 - count ELSE count

\* range(count) of line 136: no iteration for count <= 0
RangeLen(count) == IF count > 0 THEN count ELSE 0

\* one pass of the loop body per submission output; a failed decode aborts
RECURSIVE StartLoop(_, _, _)
StartLoop(st, outs, i) ==
  IF i > Len(outs) THEN st
  ELSE LET slot == job_script(st.n)
           cmds == Append(st.cmds, SubmitCmd(slot))
       IN IF ~Decodable(outs[i])
          THEN [st EXCEPT !.n = slot, !.cmds = cmds, !.err = "UnicodeDecodeError"]
          ELSE StartLoop([st EXCEPT !.n = slot,
                                    !.cmds = cmds,
                                    !.jobs = Put(st.jobs, slot, JobOf(outs[i])),
                                    !.workers = Append(st.workers, slot)],
                         outs, i + 1)

start_workers(reg, k, outs) ==
  StartLoop([jobs |-> reg, n |-> k, workers |-> <<>>, cmds |-> <<>>, err |-> "none"],
            outs, 1)

----------------------------------------------------------------------------
(* stop_workers *)

\* line 197: the jobs of the requested slots, in the order requested
Lookup(reg, ws) == [i \in 1..Len(ws) |-> reg[ws[i]]]

\* line 197 raises KeyError for a slot that is not a key
MissingKey(reg, ws) == \E i \in 1..Len(ws) : ws[i] \notin DOMAIN reg

\* a cleanup that deletes only the first requested slot
RemoveFirstOnly(reg, ws) == [s \in DOMAIN reg \ {ws[1]} |-> reg[s]]

\* lines 199-201: del jobs[w] for each w, an absent key ignored
Remove(reg, ws) == [s \in DOMAIN reg \ Range(ws) |-> reg[s]]

\* a stop_workers that skips the slots it does not know
stop_workers_tolerant(reg, workers) ==
  LET ws == [i \in 1..Len(workers) |-> int(workers[i])]
      known == SelectSeq(ws, LAMBDA w : w \in DOMAIN reg)
  IN IF Len(workers) = 0
     THEN [jobs |-> reg, cmds |-> <<>>, err |-> "none", removed |-> {}]
     ELSE IF \E i \in 1..Len(workers) : ~CanInt(workers[i])
     THEN [jobs |-> reg, cmds |-> <<>>, err |-> "ValueError", removed |-> {}]
     ELSE [jobs |-> Remove(reg, known),
           cmds |-> <<CancelCmd(Lookup(reg, known))>>,
           err |-> "none",
           removed |-> Range(known)]

\* a stop_workers that cancels the slots it knows before raising for the others
stop_workers_partial(reg, workers) ==
  LET ws == [i \in 1..Len(workers) |-> int(workers[i])]
      known == SelectSeq(ws, LAMBDA w : w \in DOMAIN reg)
  IN IF Len(workers) = 0
     THEN [jobs |-> reg, cmds |-> <<>>, err |-> "none", removed |-> {}]
     ELSE IF \E i \in 1..Len(workers) : ~CanInt(workers[i])
     THEN [jobs |-> reg, cmds |-> <<>>, err |-> "ValueError", removed |-> {}]
     ELSE [jobs |-> Remove(reg, known),
           cmds |-> <<CancelCmd(Lookup(reg, known))>>,
           err |-> IF MissingKey(reg, ws) THEN "KeyError" ELSE "none",
           removed |-> Range(known)]

stop_workers(reg, workers) ==
  IF Len(workers) = 0
  THEN [jobs |-> reg, cmds |-> <<>>, err |-> "none", removed |-> {}]
  ELSE IF \E i \in 1..Len(workers) : ~CanInt(workers[i])
  THEN [jobs |-> reg, cmds |-> <<>>, err |-> "ValueError", removed |-> {}]
  ELSE LET ws == [i \in 1..Len(workers) |-> int(workers[i])]
       IN IF MissingKey(reg, ws)
          THEN [jobs |-> reg, cmds |-> <<>>, err |-> "KeyError", removed |-> {}]
          ELSE [jobs |-> Remove(reg, ws),
                cmds |-> <<CancelCmd(Lookup(reg, ws))>>,
                err |-> "none",
                removed |-> Range(ws) \cap DOMAIN reg]

----------------------------------------------------------------------------
(* scale_up / scale_down *)

\* a scale_up that asks for target more workers whatever it already has
ScaleUpCountWhole(target, reg) == target

\* the count scale_up passes to start_workers
ScaleUpCount(target, reg) == target - Cardinality(DOMAIN reg)

\* line 208: the distinct names of the descriptors
NamesOf(desc) == {desc[h] : h \in DOMAIN desc}

\* an extraction that takes the last '-'-segment instead of the one before it
SegmentLast(name) == split(name, "-")[Len(split(name, "-"))]

\* line 209: name.split('-')[-2]
HasSegment(name) == Len(split(name, "-")) >= 2
Segment(name) == split(name, "-")[Len(split(name, "-")) - 1]

JobIds(names) == {Segment(name) : name \in names}

----------------------------------------------------------------------------
(* State *)

Idle ==
  [op |-> "idle", after |-> "other", target |-> 0, count |-> 0, slots |-> <<>>,
   names |-> {}, ids |-> {}, outs |-> <<>>, result |-> <<>>, err |-> "none",
   cmds |-> <<>>, pre_jobs |-> <<>>, pre_n |-> 0, pre_returned |-> {},
   script |-> <<>>]

\* no batch under way
RunIdle ==
  [pc |-> "idle", cmds |-> <<>>, procs |-> <<>>, finished |-> <<>>, result |-> <<>>,
   logged |-> <<>>, err |-> "none"]

\* the attributes a completed __init__ has set
Attributes == {"job_header", "cluster", "jobs", "n", "_adaptive", "_command_template"}

Nothing == [kind |-> "none", slots |-> <<>>, target |-> 0]

Threads == {"t1", "t2"}

\* a thread that is not inside a call
ThreadIdle ==
  [pc |-> "idle", op |-> "none", left |-> 0, tmp |-> 0, script |-> 0, job |-> <<>>,
   key |-> 0, workers |-> <<>>, sjobs |-> <<>>, err |-> "none"]

Init ==
  /\ jobs = <<>>
  /\ n = 0
  /\ last = Idle
  /\ held = Nothing
  /\ returned = {}
  /\ stopped = {}
  /\ cluster = "open"
  /\ accepted = {}
  /\ th = [t \in Threads |-> ThreadIdle]
  /\ log = EmptyBag
  /\ adaptive = [ref |-> 0, built |-> 0, was |-> 0]
  /\ ctor = [state |-> "built", submit |-> PyStr(<<"q", "s", "u", "b">>),
             cancel |-> PyStr(<<"q", "d", "e", "l">>), name |-> PyStr(<<"w">>),
             err |-> "none", attrs |-> Attributes]
  /\ job_header = Header
  /\ run = RunIdle

\* what the caller keeps of a completed call
Hold(l) ==
  IF l.err # "none" THEN Nothing
  ELSE IF l.op = "start_workers"
  THEN [kind |-> "start", slots |-> l.result, target |-> 0]
  ELSE IF l.op = "stop_workers" /\ l.after = "start"
  THEN [kind |-> "start_stop", slots |-> held.slots, target |-> 0]
  ELSE IF l.op = "scale_up"
  THEN [kind |-> "scale_up", slots |-> <<>>, target |-> l.target]
  ELSE Nothing

\* how a stop_workers(ws) call relates to the caller's previous call:
\* "start" when ws is what a start_workers has just returned, "start_stop" when
\* ws has just been stopped by such a call
AfterStop(ws) ==
  IF held.kind \in {"start", "start_stop"} /\ ws = held.slots THEN held.kind
  ELSE "other"

\* "scale_up" when the previous call was scale_up with the same target
AfterScaleUp(target) ==
  IF held.kind = "scale_up" /\ held.target = target THEN "scale_up" ELSE "other"

\* the record of a call made in the current state
Record(op, fields) ==
  LET base == [Idle EXCEPT !.op = op, !.pre_jobs = jobs, !.pre_n = n,
                           !.pre_returned = returned]
  IN [f \in DOMAIN Idle |-> IF f \in DOMAIN fields THEN fields[f] ELSE base[f]]

StartedCore(op, after, target, count, outs) ==
  LET r == start_workers(jobs, n, outs)
  IN /\ jobs' = r.jobs
     /\ n' = r.n
     /\ last' = Record(op, [after |-> after,
                            target |-> target, count |-> count, outs |-> outs,
                            result |-> IF r.err = "none" THEN r.workers ELSE <<>>,
                            err |-> r.err, cmds |-> r.cmds])
     /\ returned' = IF r.err = "none" THEN returned \cup Range(r.workers) ELSE returned
     /\ UNCHANGED <<held, stopped>>

Started(op, after, target, count, outs) ==
  /\ StartedCore(op, after, target, count, outs)
  /\ UNCHANGED more

StartWorkers ==
  /\ last = Idle
  /\ \E count \in -1..MaxCount :
       /\ n + RangeLen(count) <= MaxN
       /\ \E outs \in [1..RangeLen(count) -> Outputs] :
            Started("start_workers", "other", 0, count, outs)

ScaleUp ==
  /\ last = Idle
  /\ \E target \in 0..MaxCount + 1 :
       LET count == ScaleUpCount(target, jobs)
       IN /\ n + RangeLen(count) <= MaxN
          /\ \E outs \in [1..RangeLen(count) -> Outputs] :
               Started("scale_up", AfterScaleUp(target), target, count, outs)

StoppedCore(op, after, workers, names, ids) ==
  LET r == stop_workers(jobs, workers)
  IN /\ jobs' = r.jobs
     /\ last' = Record(op, [after |-> after,
                            slots |-> workers, names |-> names, ids |-> ids,
                            err |-> r.err, cmds |-> r.cmds])
     /\ stopped' = stopped \cup r.removed
     /\ UNCHANGED <<n, held, returned>>

Stopped(op, after, workers, names, ids) ==
  /\ StoppedCore(op, after, workers, names, ids)
  /\ UNCHANGED more

StopWorkers ==
  /\ last = Idle
  /\ \E len \in 0..MaxStop :
       \E ws \in [1..len -> 1..MaxN] :
         Stopped("stop_workers", AfterStop(ws), [i \in 1..len |-> PyInt(ws[i])], {}, {})

ScaleDown ==
  /\ last = Idle
  /\ \/ \E hs \in SUBSET Handles :
          \E desc \in [hs -> WorkerNames] :
            LET names == NamesOf(desc)
            IN IF \E name \in names : ~HasSegment(name)
               THEN /\ last' = Record("scale_down", [names |-> names, err |-> "IndexError"])
                    /\ UNCHANGED <<jobs, n, held, returned, stopped, more>>
               ELSE \E order \in Orderings(JobIds(names)) :
                      Stopped("scale_down", "other",
                              [i \in DOMAIN order |-> PyStr(order[i])],
                              names, JobIds(names))
     \/ \* workers is not a dict: nothing is done
        /\ last' = Record("scale_down", [err |-> "none"])
        /\ UNCHANGED <<jobs, n, held, returned, stopped, more>>

\* the caller takes the outcome of its call and is ready for the next one
Return ==
  /\ last # Idle
  /\ last' = Idle
  /\ held' = Hold(last)
  /\ UNCHANGED <<jobs, n, returned, stopped, more>>

Next == StartWorkers \/ StopWorkers \/ ScaleUp \/ ScaleDown \/ Return

Spec == Init /\ [][Next]_vars

----------------------------------------------------------------------------
(* Several threads calling into one adapter. Nothing in the class takes a  *)
(* lock, so that a thread can be preempted between any two reads or writes *)
(* of self.n and self.jobs, and always while it waits for a command.       *)

\* what the scheduler prints for its k-th accepted submission: b"<k>.h"
Reply(k) == <<48 + k, 46, 104>>

\* how many commands of the log are among cs
RECURSIVE CountIn(_)
CountIn(cs) ==
  IF cs = {} THEN 0
  ELSE LET c == CHOOSE x \in cs : TRUE IN CopiesIn(c, log) + CountIn(cs \ {c})

Submits == CountIn({c \in BagToSet(log) : c.prog = submit_command})

RECURSIVE LeftOf(_)
LeftOf(T) ==
  IF T = {} THEN 0
  ELSE LET t == CHOOSE x \in T : TRUE IN th[t].left + LeftOf(T \ {t})

\* the submissions the running start_workers calls have still to make
Pending == LeftOf(Threads)

Step(t, fields) == th' = [th EXCEPT ![t] = fields]

unshared == <<last, held, returned, stopped, accepted, adaptive, ctor, job_header, run>>

\* start_workers(count) is entered; the threads make MaxCount submissions
\* between them at most
TStartWorkers(t) ==
  /\ th[t].pc = "idle"
  /\ cluster = "open"
  /\ \E count \in 1..MaxCount :
       /\ n + Pending + count <= MaxCount
       /\ Step(t, [ThreadIdle EXCEPT !.pc = "loop", !.op = "start_workers", !.left = count])
  /\ UNCHANGED <<jobs, n, cluster, log, unshared>>

\* line 120, self.n += 1: the read
TLoadN(t) ==
  /\ th[t].pc = "loop"
  /\ th[t].left > 0
  /\ Step(t, [th[t] EXCEPT !.pc = "store", !.tmp = n])
  /\ UNCHANGED <<jobs, n, cluster, log, unshared>>

\* line 120, self.n += 1: the write
TStoreN(t) ==
  /\ th[t].pc = "store"
  /\ n' = th[t].tmp + 1
  /\ Step(t, [th[t] EXCEPT !.pc = "render", !.tmp = 0])
  /\ UNCHANGED <<jobs, cluster, log, unshared>>

\* lines 121-123: the script is rendered for the value self.n has now
TRender(t) ==
  /\ th[t].pc = "render"
  /\ Step(t, [th[t] EXCEPT !.pc = "submit", !.script = n])
  /\ UNCHANGED <<jobs, n, cluster, log, unshared>>

\* lines 138-139: the submit command runs and its output is parsed
TSubmit(t) ==
  /\ th[t].pc = "submit"
  /\ log' = log (+) SetToBag({SubmitCmd(th[t].script)})
  /\ Step(t, [th[t] EXCEPT !.pc = "record", !.job = JobOf(Reply(Submits + 1))])
  /\ UNCHANGED <<jobs, n, cluster, unshared>>

\* line 140: self.jobs[self.n] = job
TRecord(t) ==
  /\ th[t].pc = "record"
  /\ jobs' = Put(jobs, n, th[t].job)
  /\ Step(t, [th[t] EXCEPT !.pc = "append", !.key = n])
  /\ UNCHANGED <<n, cluster, log, unshared>>

\* line 141: workers.append(self.n)
TAppend(t) ==
  /\ th[t].pc = "append"
  /\ Step(t, [th[t] EXCEPT !.pc = "loop", !.left = @ - 1, !.workers = Append(@, n),
                            !.script = 0, !.job = <<>>, !.key = 0])
  /\ UNCHANGED <<jobs, n, cluster, log, unshared>>

\* line 142: return workers
TReturn(t) ==
  /\ th[t].pc = "loop"
  /\ th[t].left = 0
  /\ Step(t, [th[t] EXCEPT !.pc = "done"])
  /\ UNCHANGED <<jobs, n, cluster, log, unshared>>

\* stop_workers is entered for one minted slot, directly or from scale_down;
\* lines 194-196
TStopWorkers(t) ==
  /\ th[t].pc = "idle"
  /\ cluster = "open"
  /\ \E w \in 1..n :
       Step(t, [ThreadIdle EXCEPT !.pc = "lookup", !.op = "stop_workers", !.workers = <<w>>])
  /\ UNCHANGED <<jobs, n, cluster, log, unshared>>

\* __exit__ is entered: stop_workers(self.jobs), lines 194-196
TExit(t) ==
  /\ th[t].pc = "idle"
  /\ cluster = "open"
  /\ \E order \in Orderings(DOMAIN jobs) :
       Step(t, [ThreadIdle EXCEPT !.pc = IF Len(order) = 0 THEN "release" ELSE "lookup",
                                  !.op = "exit", !.workers = order])
  /\ UNCHANGED <<jobs, n, cluster, log, unshared>>

\* line 197: jobs = [self.jobs[w] for w in workers]
TLookup(t) ==
  /\ th[t].pc = "lookup"
  /\ IF MissingKey(jobs, th[t].workers)
     THEN Step(t, [th[t] EXCEPT !.pc = "done", !.err = "KeyError"])
     ELSE Step(t, [th[t] EXCEPT !.pc = "cancel", !.sjobs = Lookup(jobs, th[t].workers)])
  /\ UNCHANGED <<jobs, n, cluster, log, unshared>>

\* line 198: the cancel command runs
TCancel(t) ==
  /\ th[t].pc = "cancel"
  /\ log' = log (+) SetToBag({CancelCmd(th[t].sjobs)})
  /\ Step(t, [th[t] EXCEPT !.pc = "delete"])
  /\ UNCHANGED <<jobs, n, cluster, unshared>>

\* lines 199-201: del self.jobs[w], an absent key ignored
TDelete(t) ==
  /\ th[t].pc = "delete"
  /\ jobs' = Remove(jobs, th[t].workers)
  /\ Step(t, [th[t] EXCEPT !.pc = IF th[t].op = "exit" THEN "release" ELSE "done",
                            !.sjobs = <<>>])
  /\ UNCHANGED <<n, cluster, log, unshared>>

\* line 217: self.cluster.__exit__
TRelease(t) ==
  /\ th[t].pc = "release"
  /\ cluster' = "released"
  /\ Step(t, [th[t] EXCEPT !.pc = "done"])
  /\ UNCHANGED <<jobs, n, log, unshared>>

\* the caller takes the result and is free to call again
TFinish(t) ==
  /\ th[t].pc = "done"
  /\ Step(t, ThreadIdle)
  /\ UNCHANGED <<jobs, n, cluster, log, unshared>>

ConcNext ==
  \E t \in Threads :
    \/ TStartWorkers(t) \/ TLoadN(t) \/ TStoreN(t) \/ TRender(t) \/ TSubmit(t)
    \/ TRecord(t) \/ TAppend(t) \/ TReturn(t)
    \/ TStopWorkers(t) \/ TExit(t) \/ TLookup(t) \/ TCancel(t) \/ TDelete(t)
    \/ TRelease(t) \/ TFinish(t)

ConcSpec == Init /\ [][ConcNext]_vars

----------------------------------------------------------------------------
(* adapt *)

\* an adapt() that builds a second controller before it starts checking
adapt_twice(a) ==
  IF a.built > 1 THEN [a EXCEPT !.was = a.ref]
  ELSE [ref |-> a.built + 1, built |-> a.built + 1, was |-> a.ref]

\* lines 225-229: nothing when self._adaptive is set, else a new Adaptive
adapt(a) ==
  IF a.ref # 0 THEN [a EXCEPT !.was = a.ref]
  ELSE [ref |-> a.built + 1, built |-> a.built + 1, was |-> a.ref]

Adapt ==
  /\ last = Idle
  /\ adaptive' = adapt(adaptive)
  /\ last' = Record("adapt", [err |-> "none"])
  /\ UNCHANGED <<jobs, n, held, returned, stopped, cluster, accepted, th, log,
                 ctor, job_header, run>>

\* the calls the Adaptive controller makes, and adapt() itself
AdaptNext == Adapt \/ ScaleUp \/ ScaleDown \/ Return

AdaptSpec == Init /\ [][AdaptNext]_vars

----------------------------------------------------------------------------
(* __init__ and job_script *)

\* a constructor that checks the submit command only
init_submit_only(cfg, cluster_ok) ==
  IF ~Truthy(cfg.submit)
  THEN [err |-> "NotImplementedError", attrs |-> {}]
  ELSE IF ~cluster_ok
  THEN [err |-> "ClusterError", attrs |-> {"job_header"}]
  ELSE [err |-> "none", attrs |-> Attributes]

\* lines 83-117: how __init__ ends and the attributes it has set by then;
\* cluster_ok is whether LocalCluster(...) of line 95 returns
init(cfg, cluster_ok) ==
  IF ~Truthy(cfg.cancel) \/ ~Truthy(cfg.submit)
  THEN [err |-> "NotImplementedError", attrs |-> {}]
  ELSE IF ~cluster_ok
  THEN [err |-> "ClusterError", attrs |-> {"job_header"}]
  ELSE [err |-> "none", attrs |-> Attributes]

Construct ==
  /\ ctor.state = "new"
  /\ \E cluster_ok \in BOOLEAN :
       LET r == init(ctor, cluster_ok)
       IN /\ ctor' = [ctor EXCEPT !.state = IF r.err = "none" THEN "built" ELSE "failed",
                                  !.err = r.err, !.attrs = r.attrs]
          /\ job_header' = PyNone
          /\ cluster' = IF "cluster" \in r.attrs THEN "open" ELSE cluster
          /\ jobs' = IF "jobs" \in r.attrs THEN <<>> ELSE jobs
          /\ n' = IF "n" \in r.attrs THEN 0 ELSE n
          /\ adaptive' = IF "_adaptive" \in r.attrs
                         THEN [ref |-> 0, built |-> adaptive.built, was |-> 0]
                         ELSE adaptive
          /\ last' = Record("__init__", [err |-> r.err])
  /\ UNCHANGED <<held, returned, stopped, accepted, th, log, run>>

\* the subclass installs its job header after the base __init__ has returned
SetHeader ==
  /\ ctor.state = "built"
  /\ last = Idle
  /\ job_header = PyNone
  /\ job_header' = Header
  /\ UNCHANGED <<jobs, n, last, held, returned, stopped, cluster, accepted, th, log,
                 adaptive, ctor, run>>

\* a render that substitutes the slot it started from
RenderStale(header, name, k) ==
  Format(script_template,
         [f \in {"%(job_header)s", "%(worker_command)s"} |->
            IF f = "%(job_header)s" THEN header
            ELSE PyStr(Format(command_template(name), [g \in {"%(n)d"} |-> PyInt(k - 1)]))])

\* lines 121-123: the script of slot k
Render(header, name, k) ==
  Format(script_template,
         [f \in {"%(job_header)s", "%(worker_command)s"} |->
            IF f = "%(job_header)s" THEN header
            ELSE PyStr(Format(command_template(name), [g \in {"%(n)d"} |-> PyInt(k)]))])

\* job_script() called on its own
JobScript ==
  /\ last = Idle
  /\ n + 1 <= MaxN
  /\ n' = job_script(n)
  /\ last' = Record("job_script", [script |-> Render(job_header, ctor.name, job_script(n))])
  /\ UNCHANGED <<jobs, held, returned, stopped, more>>

\* job_script called on its own and through start_workers
RenderNext == JobScript \/ StartWorkers \/ Return

RenderSpec == Init /\ [][RenderNext]_vars

\* an adapter that is not constructed yet: no attribute exists
CtorInit ==
  /\ ctor \in [state : {"new"}, submit : SubmitCommands, cancel : CancelCommands,
               name : Names, err : {"none"}, attrs : {{}}]
  /\ cluster = "none"
  /\ job_header = PyNone
  /\ jobs = <<>>
  /\ n = 0
  /\ last = Idle
  /\ held = Nothing
  /\ returned = {}
  /\ stopped = {}
  /\ accepted = {}
  /\ th = [t \in Threads |-> ThreadIdle]
  /\ log = EmptyBag
  /\ adaptive = [ref |-> 0, built |-> 0, was |-> 0]
  /\ run = RunIdle

CtorNext ==
  \/ Construct
  \/ SetHeader
  \/ ctor.state = "built" /\ JobScript
  \/ ctor.state = "built" /\ StartWorkers
  \/ ctor.state = "built" /\ ScaleUp
  \/ Return

CtorSpec == CtorInit /\ [][CtorNext]_vars

----------------------------------------------------------------------------
(* _calls: the command runner. The commands are taken to exist, so that    *)
(* Popen itself does not raise.                                            *)

\* what a command prints: stdout b"1" or b"2"; stderr nothing, b"h" or b"\xff"
Commands == [out : {<<49>>, <<50>>}, err : {<<>>, <<104>>, <<255>>}]

rest == <<jobs, n, last, held, returned, stopped, cluster, accepted, th, log, adaptive,
          ctor, job_header>>

\* _calls(cmds) is entered
Calls ==
  /\ run.pc = "idle"
  /\ \E len \in 0..MaxBatch : \E cmds \in [1..len -> Commands] :
       run' = [RunIdle EXCEPT !.pc = IF len = 0 THEN "done" ELSE "launch", !.cmds = cmds]
  /\ UNCHANGED rest

\* lines 177-180: subprocess.Popen for the next command of the batch
Popen ==
  /\ run.pc = "launch"
  /\ run' = [run EXCEPT !.procs = Append(@, "running"),
                        !.pc = IF Len(run.procs) + 1 = Len(run.cmds) THEN "await"
                               ELSE "launch"]
  /\ UNCHANGED rest

\* a launched process finishes, whenever it likes
ProcExit ==
  /\ \E k \in DOMAIN run.procs :
       /\ run.procs[k] = "running"
       /\ run' = [run EXCEPT !.procs[k] = "exited", !.finished = Append(@, k)]
  /\ UNCHANGED rest

\* lines 183-186: communicate() with the next process in input order, which
\* returns once that process has finished; its stderr is decoded and logged
Communicate ==
  /\ run.pc = "await"
  /\ LET i == Len(run.result) + 1
         c == run.cmds[i]
     IN /\ run.procs[i] = "exited"
        /\ IF Len(c.err) > 0 /\ ~Decodable(c.err)
           THEN run' = [run EXCEPT !.pc = "raised", !.err = "UnicodeDecodeError"]
           ELSE run' = [run EXCEPT
                          !.logged = IF Len(c.err) > 0 THEN Append(@, decode(c.err)) ELSE @,
                          !.result = Append(@, c.out),
                          !.pc = IF i = Len(run.cmds) THEN "done" ELSE "await"]
  /\ UNCHANGED rest

\* line 187: the batch returns, or its exception reaches the caller
CallsReturn ==
  /\ run.pc \in {"done", "raised"}
  /\ run' = RunIdle
  /\ UNCHANGED rest

RunnerNext == Calls \/ Popen \/ ProcExit \/ Communicate \/ CallsReturn

RunnerSpec == Init /\ [][RunnerNext]_vars

----------------------------------------------------------------------------
(* A scheduler that gives every submission it accepts a job id of its own *)

\* the scheduler accepted the submission: it printed <jobid>.<host>
Accepts(out) == Decodable(out) /\ JobOf(out) # <<>>

\* the outputs of a batch carry job ids that are new and differ from each other
Fresh(outs) ==
  \A i \in 1..Len(outs) :
    Accepts(outs[i])
    => /\ JobOf(outs[i]) \notin accepted
       /\ \A j \in 1..Len(outs) : (j # i /\ Accepts(outs[j])) => JobOf(outs[j]) # JobOf(outs[i])

SchedStarted(op, after, target, count, outs) ==
  /\ Fresh(outs)
  /\ StartedCore(op, after, target, count, outs)
  /\ accepted' = accepted \cup {JobOf(outs[i]) : i \in {j \in 1..Len(outs) : Accepts(outs[j])}}
  /\ UNCHANGED <<cluster, th, log, adaptive, ctor, job_header, run>>

SchedStartWorkers ==
  /\ last = Idle
  /\ \E count \in -1..MaxCount :
       /\ n + RangeLen(count) <= MaxN
       /\ \E outs \in [1..RangeLen(count) -> Outputs] :
            SchedStarted("start_workers", "other", 0, count, outs)

SchedScaleUp ==
  /\ last = Idle
  /\ \E target \in 0..MaxCount + 1 :
       LET count == ScaleUpCount(target, jobs)
       IN /\ n + RangeLen(count) <= MaxN
          /\ \E outs \in [1..RangeLen(count) -> Outputs] :
               SchedStarted("scale_up", AfterScaleUp(target), target, count, outs)

SchedNext == SchedStartWorkers \/ StopWorkers \/ SchedScaleUp \/ ScaleDown \/ Return

SchedSpec == Init /\ [][SchedNext]_vars

----------------------------------------------------------------------------
(* __exit__ *)

\* a teardown that stops only the first slot it tracks
ExitWorkersFirst(order) == [i \in DOMAIN order \cap {1} |-> PyInt(order[i])]

\* line 216: self.jobs handed to stop_workers, which iterates its keys
ExitWorkers(order) == [i \in DOMAIN order |-> PyInt(order[i])]

\* line 216: stop_workers(self.jobs); an exception would leave line 217 undone
ExitStop ==
  /\ last = Idle
  /\ cluster = "open"
  /\ \E order \in Orderings(DOMAIN jobs) :
       /\ StoppedCore("exit", "other", ExitWorkers(order), {}, {})
       /\ cluster' = IF stop_workers(jobs, ExitWorkers(order)).err = "none"
                     THEN "closing" ELSE cluster
       /\ UNCHANGED <<accepted, th, log, adaptive, ctor, job_header, run>>

\* line 217: self.cluster.__exit__(type, value, traceback)
ExitRelease ==
  /\ cluster = "closing"
  /\ cluster' = "released"
  /\ UNCHANGED <<jobs, n, last, held, returned, stopped, accepted, th, log, adaptive,
                 ctor, job_header, run>>

\* the adapter is used, then torn down once
TeardownNext ==
  \/ cluster = "open" /\ StartWorkers
  \/ cluster = "open" /\ StopWorkers
  \/ cluster = "open" /\ ScaleUp
  \/ cluster = "open" /\ ScaleDown
  \/ cluster = "open" /\ Return
  \/ ExitStop
  \/ ExitRelease

\* __exit__ runs to its end once entered: nothing in it waits for another caller
TeardownSpec == Init /\ [][TeardownNext]_vars /\ WF_vars(ExitRelease)

----------------------------------------------------------------------------
(* Text as the claims describe it, computed without split *)

\* the text before the first '.' of a text (all of it when it has no '.')
RECURSIVE BeforeFirstDot(_)
BeforeFirstDot(out) ==
  IF Len(out) = 0 \/ Head(out) = "." THEN <<>>
  ELSE <<Head(out)>> \o BeforeFirstDot(Tail(out))

\* out cannot be decoded
Undecodable(out) == \E i \in 1..Len(out) : out[i] >= 128

\* out reads <jobid>.<host>: it decodes, has a '.', and a job id before it
OfJobHostForm(out) ==
  /\ ~Undecodable(out)
  /\ \E i \in 1..Len(out) : decode(out)[i] = "."
  /\ BeforeFirstDot(decode(out)) # <<>>

\* the position of the last '-' of name before position k (0 when there is none)
RECURSIVE DashBefore(_, _)
DashBefore(name, k) ==
  IF k <= 1 THEN 0
  ELSE IF name[k - 1] = "-" THEN k - 1
  ELSE DashBefore(name, k - 1)

\* name has at least two '-'-delimited fields
HasTwoFields(name) == DashBefore(name, Len(name) + 1) > 0

\* the second-to-last '-'-delimited field of name
PenultimateField(name) ==
  LET hi == DashBefore(name, Len(name) + 1)
      lo == DashBefore(name, hi)
  IN SubSeq(name, lo + 1, hi - 1)

\* out gives a job id: it decodes and has text before its first '.'
YieldsJobId(out) == ~Undecodable(out) /\ BeforeFirstDot(decode(out)) # <<>>

Size(reg) == Cardinality(DOMAIN reg)

\* reg2 is reg1 with the slots of S removed and nothing else changed
RemovedExactly(reg1, reg2, S) ==
  /\ DOMAIN reg2 = DOMAIN reg1 \ S
  /\ \A s \in DOMAIN reg2 : reg2[s] = reg1[s]

StartOps == {"start_workers", "scale_up"}

----------------------------------------------------------------------------
\* C1: start_workers(count) with count >= 0 and every submission output of the
\* form <jobid>.<host> issues exactly count submit commands, one per slot,
\* returns the count newly minted slot ids in submission order, and leaves the
\* registry equal to the prior registry plus each returned slot mapped to the
\* text before the first '.' of that slot's own output.
C1_StartWorkersContract ==
  ( /\ last.op = "start_workers"
    /\ last.count >= 0
    /\ \A i \in 1..Len(last.outs) : OfJobHostForm(last.outs[i]) )
  => /\ last.err = "none"
     /\ Len(last.cmds) = last.count
     /\ \A i \in 1..Len(last.cmds) :
          last.cmds[i] = [prog |-> submit_command, script |-> last.pre_n + i, args |-> <<>>]
     /\ last.result = [i \in 1..last.count |-> last.pre_n + i]
     /\ n = last.pre_n + last.count
     /\ DOMAIN jobs = DOMAIN last.pre_jobs \cup Range(last.result)
     /\ \A s \in DOMAIN last.pre_jobs : jobs[s] = last.pre_jobs[s]
     /\ \A i \in 1..last.count : jobs[last.result[i]] = BeforeFirstDot(decode(last.outs[i]))

\* the example of the specification: on a fresh adapter, outputs 101.h then
\* 102.h.d give [1, 2] and the registry {1: 101, 2: 102}
C1_Witness ==
  /\ last.op = "start_workers"
  /\ last.pre_n = 0
  /\ last.outs = << <<49, 48, 49, 46, 104>>, <<49, 48, 50, 46, 104, 46, 100>> >>
  /\ last.result = <<1, 2>>
  /\ DOMAIN jobs = {1, 2}
  /\ jobs[1] = <<"1", "0", "1">>
  /\ jobs[2] = <<"1", "0", "2">>

\* C2: the slot-id lists returned by start_workers are pairwise disjoint and
\* each strictly increasing; the counter never decreases; every registry key is
\* between 1 and the counter; a slot id is never minted again after its job
\* has been cancelled.
C2_SlotsNeverReused ==
  /\ n >= last.pre_n
  /\ \A s \in DOMAIN jobs : 1 <= s /\ s <= n
  /\ \A s \in stopped : s <= n
  /\ last.op \in StartOps =>
       /\ \A i, j \in 1..Len(last.result) : i < j => last.result[i] < last.result[j]
       /\ Range(last.result) \cap last.pre_returned = {}
       /\ \A s \in (last.pre_n + 1)..n : s \notin stopped /\ s \notin last.pre_returned

\* a second list is returned after an earlier one, one of whose slots has been
\* cancelled in between
C2_Witness ==
  /\ last.op = "start_workers"
  /\ Len(last.result) = 2
  /\ last.pre_returned # {}
  /\ stopped \cap last.pre_returned # {}

\* C3: stop_workers on a non-empty collection of registered slots issues exactly
\* one cancel command, the cancel command name followed by the registered jobs
\* of the requested slots, and removes exactly those slots; stop_workers on an
\* empty collection issues no command and leaves the registry unchanged.
C3_StopWorkersBatch ==
  last.op = "stop_workers" =>
    /\ ( /\ Len(last.slots) > 0
         /\ \A i \in 1..Len(last.slots) : last.slots[i].i \in DOMAIN last.pre_jobs )
       => /\ last.err = "none"
          /\ Len(last.cmds) = 1
          /\ last.cmds[1].prog = cancel_command
          /\ last.cmds[1].args =
               [i \in 1..Len(last.slots) |-> last.pre_jobs[last.slots[i].i]]
          /\ RemovedExactly(last.pre_jobs, jobs, {last.slots[i].i : i \in 1..Len(last.slots)})
    /\ Len(last.slots) = 0
       => /\ last.err = "none"
          /\ last.cmds = <<>>
          /\ jobs = last.pre_jobs

\* two of three registered slots are stopped in one batch
C3_Witness ==
  /\ last.op = "stop_workers"
  /\ Len(last.slots) = 2
  /\ last.slots[1] # last.slots[2]
  /\ Size(last.pre_jobs) = 3
  /\ Size(jobs) = 1
  /\ Len(last.cmds) = 1

\* C4 (as claimed): stop_workers on the slots an immediately preceding
\* start_workers returned reduces the registry size by the number of slots
\* stopped, and stop_workers again on those stopped slots completes without
\* error and leaves the registry unchanged.
C4_AsClaimed ==
  last.op = "stop_workers" =>
    /\ last.after = "start"
       => /\ last.err = "none"
          /\ Size(jobs) = Size(last.pre_jobs) - Len(last.slots)
    /\ last.after = "start_stop"
       => /\ last.err = "none"
          /\ jobs = last.pre_jobs

\* C4 (amended): stop_workers on the slots an immediately preceding
\* start_workers returned reduces the registry size by the number of slots
\* stopped; stop_workers again on those stopped slots leaves the registry
\* unchanged and issues no command, but raises KeyError unless the list is empty.
C4_StopAfterStart ==
  last.op = "stop_workers" =>
    /\ last.after = "start"
       => /\ last.err = "none"
          /\ Size(jobs) = Size(last.pre_jobs) - Len(last.slots)
    /\ last.after = "start_stop"
       => /\ jobs = last.pre_jobs
          /\ last.cmds = <<>>
          /\ last.err = IF Len(last.slots) = 0 THEN "none" ELSE "KeyError"

\* the slots a start_workers returned, stopped, are stopped a second time
C4_Witness ==
  /\ last.op = "stop_workers"
  /\ last.after = "start_stop"
  /\ Len(last.slots) = 2
  /\ last.err = "KeyError"

\* C5: a stop_workers batch with at least one slot that is not in the registry
\* raises the lookup error, issues no cancel command and leaves the registry
\* exactly as it was.
C5_UnknownSlotAborts ==
  ( /\ last.op = "stop_workers"
    /\ \E i \in 1..Len(last.slots) : last.slots[i].i \notin DOMAIN last.pre_jobs )
  => /\ last.err = "KeyError"
     /\ last.cmds = <<>>
     /\ jobs = last.pre_jobs
     /\ n = last.pre_n

\* a batch of a known and an unknown slot, with an unrelated slot registered
C5_Witness ==
  /\ last.op = "stop_workers"
  /\ Len(last.slots) = 2
  /\ last.slots[1].i \in DOMAIN last.pre_jobs
  /\ last.slots[2].i \notin DOMAIN last.pre_jobs
  /\ Size(last.pre_jobs) = 2
  /\ last.err = "KeyError"

\* C6 (as claimed): scale_up(target) with target <= registry size starts no
\* worker (no submit command, no slot minted, registry and counter unchanged),
\* and the count passed to start_workers is never negative.
C6_AsClaimed ==
  (last.op = "scale_up" /\ last.target <= Size(last.pre_jobs))
  => /\ last.err = "none"
     /\ last.cmds = <<>>
     /\ last.result = <<>>
     /\ jobs = last.pre_jobs
     /\ n = last.pre_n
     /\ last.count >= 0

\* C6 (amended): scale_up(target) with target <= registry size starts no worker
\* (no submit command, no slot minted, registry and counter unchanged); the
\* count it passes to start_workers is target - size, negative when
\* target < size, which start_workers takes for zero.
C6_ScaleUpStartsNothing ==
  (last.op = "scale_up" /\ last.target <= Size(last.pre_jobs))
  => /\ last.err = "none"
     /\ last.cmds = <<>>
     /\ last.result = <<>>
     /\ jobs = last.pre_jobs
     /\ n = last.pre_n
     /\ last.count = last.target - Size(last.pre_jobs)
     /\ last.count <= 0

\* scale_up to a target below the registry size: a negative count is passed
C6_Witness ==
  /\ last.op = "scale_up"
  /\ Size(last.pre_jobs) = 2
  /\ last.target = 1
  /\ last.count = -1
  /\ last.cmds = <<>>

C8_AsClaimed ==
  (last.op = "scale_down" /\ last.names # {} /\ last.err = "none")
  => /\ Len(last.cmds) = 1
     /\ Range(last.cmds[1].args) = {PenultimateField(name) : name \in last.names}

\* C8 (amended): scale_down extracts the second-to-last '-'-delimited segment
\* of each distinct worker name, deduplicates, and takes each extracted text
\* for a slot number, not for a job identifier: when every extracted text is
\* the number of a registered slot it issues a single cancel call containing
\* exactly the jobs registered for those slots and removes those slots;
\* otherwise it raises and issues no cancel call.
C8_ScaleDownCancelsSlots ==
  (last.op = "scale_down" /\ last.names # {})
  => IF \A name \in last.names : HasTwoFields(name)
     THEN LET fields == {PenultimateField(name) : name \in last.names}
              slots == {IntOfText(f) : f \in fields}
          IN /\ last.ids = fields
             /\ IF (\A f \in fields : IsIntText(f)) /\ slots \subseteq DOMAIN last.pre_jobs
                THEN /\ last.err = "none"
                     /\ Len(last.cmds) = 1
                     /\ last.cmds[1].prog = cancel_command
                     /\ Len(last.cmds[1].args) = Cardinality(fields)
                     /\ Range(last.cmds[1].args) = {last.pre_jobs[s] : s \in slots}
                     /\ RemovedExactly(last.pre_jobs, jobs, slots)
                ELSE /\ last.err \in {"ValueError", "KeyError"}
                     /\ last.cmds = <<>>
                     /\ jobs = last.pre_jobs
     ELSE /\ last.err = "IndexError"
          /\ last.cmds = <<>>
          /\ jobs = last.pre_jobs

\* two workers of one slot are scaled down: one slot number is extracted and
\* the job registered for it is cancelled
C8_Witness ==
  /\ last.op = "scale_down"
  /\ last.names = { <<"w", "-", "1", "-", "0">>, <<"w", "-", "1", "-", "1">> }
  /\ last.ids = { <<"1">> }
  /\ last.err = "none"
  /\ last.cmds = <<[prog |-> cancel_command, script |-> 0, args |-> << <<"1", "0", "1">> >>]>>
  /\ 1 \notin DOMAIN jobs
  /\ 2 \in DOMAIN jobs

\* C9 (as claimed): if a submission inside start_workers does not produce a
\* parseable job id (empty or undecodable output), no registry entry is created
\* for that slot, while the slot counter keeps the increment it received for it.
C9_AsClaimed ==
  last.op \in StartOps =>
    \A i \in 1..Len(last.cmds) :
      ~YieldsJobId(last.outs[i])
      => /\ (last.pre_n + i) \notin DOMAIN jobs
         /\ n >= last.pre_n + i

\* C10 (as claimed): when a submission of a start_workers batch cannot be
\* decoded into a job id, that slot is dropped and start_workers returns a short
\* list: the slot ids of the submissions that succeeded, exactly the slots the
\* call added to the registry.
C10_AsClaimed ==
  ( /\ last.op = "start_workers"
    /\ \E i \in 1..Len(last.cmds) : Undecodable(last.outs[i]) )
  => /\ last.err = "none"
     /\ Len(last.result) < last.count
     /\ Range(last.result) = DOMAIN jobs \ DOMAIN last.pre_jobs

\* C11: on teardown from any reachable state all tracked slots are cancelled
\* with one batch cancel (none when the registry is empty) before the cluster
\* is released; after exit the registry is empty; and the cluster is
\* eventually released on every teardown.
C11_Teardown ==
  /\ [](last.op = "exit"
        => /\ last.err = "none"
           /\ jobs = <<>>
           /\ {last.slots[i].i : i \in 1..Len(last.slots)} = DOMAIN last.pre_jobs
           /\ IF last.pre_jobs = <<>> THEN last.cmds = <<>>
              ELSE /\ Len(last.cmds) = 1
                   /\ last.cmds[1].prog = cancel_command
                   /\ Len(last.cmds[1].args) = Size(last.pre_jobs)
                   /\ \A s \in DOMAIN last.pre_jobs :
                        \E i \in 1..Len(last.slots) :
                          last.slots[i].i = s /\ last.cmds[1].args[i] = last.pre_jobs[s]
           /\ cluster \in {"closing", "released"})
  /\ [](cluster \in {"closing", "released"} => last.op = "exit" /\ jobs = <<>>)
  /\ (last.op = "exit") ~> (cluster = "released")

\* a registry of two slots is torn down: one cancel of both jobs, then the release
C11_Witness ==
  /\ last.op = "exit"
  /\ Size(last.pre_jobs) = 2
  /\ Len(last.cmds) = 1
  /\ Len(last.cmds[1].args) = 2
  /\ jobs = <<>>
  /\ cluster = "released"

\* C12 (as claimed): in every state reachable through start_workers,
\* stop_workers, scale_up and scale_down, no two slots of the registry map to
\* the same job identifier, the scheduler giving each submission it accepts a
\* job identifier of its own.
C12_AsClaimed ==
  \A s1, s2 \in DOMAIN jobs : s1 # s2 => jobs[s1] # jobs[s2]

\* the jobs the scheduler has created for the submissions in the log
RECURSIVE Copies(_)
Copies(cs) ==
  IF cs = {} THEN 0
  ELSE LET c == CHOOSE x \in cs : TRUE IN CopiesIn(c, log) + Copies(cs \ {c})

\* the jobs the scheduler has created for the submit commands in the log
SubmittedJobs ==
  {<<Chr(48 + k)>> : k \in 1..Copies({c \in BagToSet(log) : c.prog = "qsub"})}

\* the number of cancel commands in the log that carry job j
CancelsOf(j) ==
  Copies({c \in BagToSet(log) : c.prog = "qdel" /\ \E a \in DOMAIN c.args : c.args[a] = j})

\* C13 (as claimed): under every interleaving of start_workers calls made by
\* several threads, each submitted job is recorded under the slot minted for
\* its own script, no submitted job that was not cancelled is left without a
\* registry entry once the calls are over, and no two calls return the same
\* slot id.
C13_AsClaimed ==
  /\ \A t \in Threads :
       (th[t].op = "start_workers" /\ th[t].pc = "append") => th[t].key = th[t].script
  /\ (\A t \in Threads : th[t].pc \in {"idle", "done"})
     => \A j \in SubmittedJobs :
          (\E s \in DOMAIN jobs : jobs[s] = j) \/ CancelsOf(j) > 0
  /\ \A t1, t2 \in Threads :
       (/\ t1 # t2
        /\ th[t1].op = "start_workers" /\ th[t1].pc = "done"
        /\ th[t2].op = "start_workers" /\ th[t2].pc = "done")
       => \A i \in DOMAIN th[t1].workers : \A k \in DOMAIN th[t2].workers :
            th[t1].workers[i] # th[t2].workers[k]

\* C14 (as claimed): under every interleaving of overlapping stop_workers
\* calls, a teardown among them, at most one cancel command ever carries the
\* job identifier of a slot.
C14_AsClaimed ==
  \A j \in SubmittedJobs : CancelsOf(j) <= 1

\* C15: whatever sequence of adapt calls is made, among scale_up and
\* scale_down calls, at most one Adaptive is ever constructed, the field holds
\* the first one from the first call on, and a call that finds the field set
\* leaves it, the registry and the counter as they were.
C15_AdaptIdempotent ==
  /\ adaptive.built <= 1
  /\ adaptive.ref = adaptive.built
  /\ last.op = "adapt"
     => /\ jobs = last.pre_jobs
        /\ n = last.pre_n
        /\ adaptive.ref = 1
        /\ adaptive.was # 0 => adaptive.was = adaptive.ref

\* a second adapt call, made on an adapter with a live worker
C15_Witness ==
  /\ last.op = "adapt"
  /\ adaptive.was = 1
  /\ adaptive.built = 1
  /\ DOMAIN jobs # {}

\* the value leaves the command undefined
Unset(v) == v.t = "none"

\* C16: constructing the adapter with the submit or the cancel command unset
\* fails with NotImplementedError before the cluster, the registry or the
\* counter exist and before any command is spawned; construction succeeds
\* only with both commands defined, and then the registry is empty, the
\* counter 0 and no adaptive controller is set.
C16_Constructor ==
  /\ (ctor.state # "new" /\ (Unset(ctor.submit) \/ Unset(ctor.cancel)))
     => /\ ctor.state = "failed"
        /\ ctor.err = "NotImplementedError"
  /\ (ctor.state = "failed" /\ ctor.err = "NotImplementedError")
     => /\ ctor.attrs = {}
        /\ cluster = "none"
        /\ log = EmptyBag
        /\ last.cmds = <<>>
  /\ ctor.state = "built" => ~Unset(ctor.submit) /\ ~Unset(ctor.cancel)
  /\ (last.op = "__init__" /\ ctor.state = "built")
     => /\ jobs = <<>>
        /\ n = 0
        /\ adaptive.ref = 0
        /\ cluster = "open"
        /\ {"cluster", "jobs", "n", "_adaptive"} \subseteq ctor.attrs

\* a construction that failed for want of a cancel command, the submit
\* command being defined
C16_Witness ==
  /\ last.op = "__init__"
  /\ ctor.state = "failed"
  /\ Unset(ctor.cancel)
  /\ ~Unset(ctor.submit)
  /\ cluster = "none"

\* C17 (as claimed): with the job header unset, job_script, and start_workers
\* or scale_up asked for at least one worker, fail with an error: no script
\* is produced, no submit command is spawned and the registry gets no entry.
C17_AsClaimed ==
  (/\ ctor.state = "built"
   /\ job_header.t = "none"
   /\ \/ last.op = "job_script"
      \/ last.op \in {"start_workers", "scale_up"} /\ last.count > 0)
  => /\ last.err # "none"
     /\ last.script = <<>>
     /\ last.cmds = <<>>
     /\ jobs = last.pre_jobs

\* C18 (as claimed): the command runner launches every command of a batch
\* before it awaits any, waits for all of them, returns one output per
\* command in input order whatever the order they finish in, and a command
\* that writes to stderr does not make the batch fail.
C18_AsClaimed ==
  /\ (Len(run.result) > 0 \/ run.pc \in {"await", "done", "raised"})
     => Len(run.procs) = Len(run.cmds)
  /\ run.pc = "done"
     => /\ \A k \in DOMAIN run.procs : run.procs[k] = "exited"
        /\ Len(run.result) = Len(run.cmds)
        /\ \A i \in DOMAIN run.cmds : run.result[i] = run.cmds[i].out
  /\ run.err = "none"

\* the script expected for slot k of an adapter named "w" with header "#PBS":
\* the boilerplate, the header, the command with k after the name prefix
DecimalOf(k) == <<(<<"0", "1", "2", "3", "4", "5", "6", "7", "8", "9">>)[k + 1]>>

ExpectedScript(k) ==
  <<"#", "!", "/", "b", "i", "n", "/", "b", "a", "s", "h", "\n", "\n">>
  \o <<"#", "P", "B", "S">> \o <<"\n", "\n">>
  \o <<"/", "d", "a", "s", "k", "-", "w", "o", "r", "k", "e", "r", " ", "s",
       " ", "-", "-", "n", "a", "m", "e", " ", "w", "-">>
  \o DecimalOf(k) \o <<"\n">>

\* C19: each render of a job script raises the slot counter by exactly one
\* and returns the boilerplate, the job header and the worker command with
\* the new counter value in place of the slot placeholder, nothing else
\* changing from one render to the next; rendering leaves the registry alone,
\* and a start_workers call renders once for each submission it makes.
C19_Render ==
  /\ last.op = "job_script"
     => /\ n = last.pre_n + 1
        /\ last.script = ExpectedScript(n)
        /\ jobs = last.pre_jobs
  /\ last.op = "start_workers"
     => /\ n = last.pre_n + Len(last.cmds)
        /\ \A i \in DOMAIN last.cmds : last.cmds[i].script = last.pre_n + i

\* a script rendered for slot 2 while slot 1 is registered
C19_Witness ==
  /\ last.op = "job_script"
  /\ last.pre_n = 1
  /\ last.script = ExpectedScript(2)
  /\ DOMAIN jobs = {1}

\* the name the launch command of slot s gives its worker: "--name w-<s>"
BakedName(s) == <<"w", "-">> \o DecimalOf(s)

\* C20 (as claimed): for every live slot s, scale_down given one descriptor
\* whose name is the '<prefix>-<s>' baked into the launch command of slot s
\* resolves it to slot s: it cancels the job registered for s and removes s,
\* and only s, from the registry.
C20_AsClaimed ==
  \A s \in DOMAIN last.pre_jobs :
    (last.op = "scale_down" /\ last.names = {BakedName(s)})
    => /\ last.err = "none"
       /\ Len(last.cmds) = 1
       /\ last.cmds[1].args = <<last.pre_jobs[s]>>
       /\ RemovedExactly(last.pre_jobs, jobs, {s})

====
